---- MODULE Spec2Model ----
(***************************************************************************)
(* Model of relativistic_quantum_equation.py: an explicit time-marching    *)
(* script for u_tt = lap(u) - biharm(u) on an N x N x N grid.              *)
(*                                                                         *)
(* Real numbers are modelled exactly: field values are integers, and the   *)
(* grid spacing dx = L/(N-1) is kept as the fraction <<L, N-1>>, so that   *)
(* x / dx**2 is x*(N-1)^2 / L^2.  Configurations are restricted to those   *)
(* where that quotient is an integer and where the values stay below       *)
(* ValueCap.  Floating-point rounding, inf and nan (L = 0) are outside the *)
(* model.  numpy arrays are objects on a heap: a name holds a reference,   *)
(* np.copy and arithmetic allocate, slice assignment writes in place, and  *)
(* basic indexing u[:, :, k] yields a view onto its base array.            *)
(***************************************************************************)
EXTENDS Integers, Sequences, FiniteSets, TLC

\* ------------------------------------------------------------------------
\* Bounds of the model
\* ------------------------------------------------------------------------
MaxN == 3
MaxT == 4
MaxL == 2

NSet == 0..MaxN
TSet == -1..MaxT
LSet == (-MaxL..MaxL) \ {0}
DtSet == {-1, 0, 1, 2}
ValueCap == 10^9

\* ------------------------------------------------------------------------
\* Pure helpers
\* ------------------------------------------------------------------------
Abs(a) == IF a < 0 THEN -a ELSE a

\* int(T / dt): Python's int() truncates towards zero.
IntTrunc(a, b) ==
  LET q == Abs(a) \div Abs(b) IN IF (a < 0) = (b < 0) THEN q ELSE -q

\* A float division raises ZeroDivisionError exactly when the divisor is 0.
ZeroDivision(den) == den = 0

GridOf(n) == (0..(n-1)) \X (0..(n-1)) \X (0..(n-1))
PlaneOf(n) == (0..(n-1)) \X (0..(n-1))

\* x / dx**2 with dx = d[1]/d[2].
DivDx2(v, d) == (v * d[2] * d[2]) \div (d[1] * d[1])

\* np.roll(f, shift, axis): element i along axis comes from (i - shift) mod n.
RollNoWrap(f, shift, axis, n) ==
  [pt \in DOMAIN f |->
     LET src == pt[axis + 1] - shift IN
     IF src < 0 \/ src > n - 1 THEN f[pt] ELSE f[[pt EXCEPT ![axis + 1] = src]]]
Roll(f, shift, axis, n) ==
  [pt \in DOMAIN f |-> f[[pt EXCEPT ![axis + 1] = (pt[axis + 1] - shift) % n]]]

LaplacianAffine(f, d, n) ==
  LET xm == Roll(f, 1, 0, n)   xp == Roll(f, -1, 0, n)
      ym == Roll(f, 1, 1, n)   yp == Roll(f, -1, 1, n)
      zm == Roll(f, 1, 2, n)   zp == Roll(f, -1, 2, n)
  IN [pt \in DOMAIN f |->
        DivDx2(xm[pt] + xp[pt] + ym[pt] + yp[pt] + zm[pt] + zp[pt] - 6, d)]
laplacian(f, d, n) ==
  LET xm == Roll(f, 1, 0, n)   xp == Roll(f, -1, 0, n)
      ym == Roll(f, 1, 1, n)   yp == Roll(f, -1, 1, n)
      zm == Roll(f, 1, 2, n)   zp == Roll(f, -1, 2, n)
  IN [pt \in DOMAIN f |->
        DivDx2(xm[pt] + xp[pt] + ym[pt] + yp[pt] + zm[pt] + zp[pt] - 6 * f[pt], d)]

biharmonic(f, d, n) == laplacian(laplacian(f, d, n), d, n)

\* 2*u - u_prev + dt**2 * lap_u - dt**4 * biharm_u, element-wise.
RecurrencePlus(cu, pr, lap, bih, d) ==
  [pt \in DOMAIN cu |-> 2 * cu[pt] - pr[pt] + d * d * lap[pt] + d * d * d * d * bih[pt]]
RecurrencePrevSign(cu, pr, lap, bih, d) ==
  [pt \in DOMAIN cu |-> 2 * cu[pt] + pr[pt] + d * d * lap[pt] - d * d * d * d * bih[pt]]
Recurrence(cu, pr, lap, bih, d) ==
  [pt \in DOMAIN cu |-> 2 * cu[pt] - pr[pt] + d * d * lap[pt] - d * d * d * d * bih[pt]]

\* f[0, :, :] = f[-1, :, :] = 0 for axis 0, and likewise for axes 1 and 2.
SetFacesFirstOnly(f, axis, n) ==
  [pt \in DOMAIN f |-> IF pt[axis + 1] = 0 THEN 0 ELSE f[pt]]
SetFaces(f, axis, n) ==
  [pt \in DOMAIN f |-> IF pt[axis + 1] = 0 \/ pt[axis + 1] = n - 1 THEN 0 ELSE f[pt]]

\* np.copy(a): a new array with the same contents.
NpCopyAlias(h, id) == [heap |-> h, ref |-> id]
NpCopy(h, id) == [heap |-> Append(h, h[id]), ref |-> Len(h) + 1]

\* N // 2
MidIdxLow(n) == (n \div 2) - 1
MidIdx(n) == n \div 2

\* u[:, :, k]: a view, it holds its base array and the index.
SliceView(id, k) == [base |-> id, idx |-> k]

\* range(steps): the loop runs another iteration while step + 1 < steps.
RangeHasNextShort(i, n) == i + 2 < n
RangeHasNext(i, n) == i + 1 < n

\* ------------------------------------------------------------------------
\* Initial fields.  The script uses sin(pi x) sin(pi y) sin(pi z); the model
\* draws a product of one profile per axis.  Skew is 0 at both ends like the
\* sine (for n = 3 it is the sine's pattern 0, 1, 0); Tilt and StepUp are
\* non-zero on a face, and none is symmetric once n >= 4.
\* ------------------------------------------------------------------------
Skew(n) == [i \in 0..(n-1) |-> IF i = 0 \/ i = n - 1 THEN 0 ELSE IF i = 1 THEN 1 ELSE -1]
Tilt(n) == [i \in 0..(n-1) |-> IF i = n - 1 THEN -1 ELSE 1]
StepUp(n) == [i \in 0..(n-1) |-> IF i = 0 THEN 1 ELSE 0]
Profiles(n) == {Skew(n), Tilt(n), StepUp(n)}
InitialFields(n) ==
  {[pt \in GridOf(n) |-> fx[pt[1]] * fy[pt[2]] * fz[pt[3]]] :
     fx \in Profiles(n), fy \in Profiles(n), fz \in Profiles(n)}

\* ------------------------------------------------------------------------
\* Configurations the integer model represents exactly
\* ------------------------------------------------------------------------
Representable(n, l) == ((n - 1) * (n - 1)) % (l * l) = 0
Amp(n, l, d) ==
  LET r == d * d * (((n - 1) * (n - 1)) \div (l * l)) IN 3 + 12 * r + 144 * r * r
RECURSIVE Fits(_, _, _)
Fits(k, m, a) == k <= 0 \/ (m <= ValueCap \div a /\ Fits(k - 1, m * a, a))
InRange(n, l, k, d) == Representable(n, l) /\ Fits(k, 1, Amp(n, l, d))

\* ------------------------------------------------------------------------
\* State
\* ------------------------------------------------------------------------
VARIABLES
  L, N, T, dt,        \* lines 6-9: the parameters
  steps,              \* line 11
  dx,                 \* line 14: the fraction <<numerator, denominator>>
  x,                  \* lines 15-17: x[i] = x[i]/dx[2]; y and z are equal to x
  heap,               \* the arrays allocated so far, by reference
  u, u_prev, u_next,  \* lines 21-25, 45, 58, 59: references into heap
  lap_u, biharm_u,    \* lines 41-42: fresh arrays, read once, held by value
  frames,             \* lines 39, 64: a list of views
  step,               \* line 40: the loop variable, -1 before the loop
  mid_idx, u_slice,   \* lines 62-63
  pc, err,            \* the line to execute next; the exception raised, if any
  c, p,               \* history: u and u_prev on entry to the current iteration
  hist,               \* history: the initial field, then u after every line 59
  pad_u, pad_prev     \* the zero-padded reference run, advanced at line 59

config == <<L, N, T, dt>>
arrays == <<heap, u, u_prev, u_next>>
ghost == <<c, p, hist, pad_u, pad_prev>>
vars == <<L, N, T, dt, steps, dx, x, heap, u, u_prev, u_next, lap_u, biharm_u,
          frames, step, mid_idx, u_slice, pc, err, c, p, hist, pad_u, pad_prev>>

NoErr == [kind |-> "", line |-> 0]
NoView == [base |-> 0, idx |-> -1]

\* The contents of the array a name refers to.
Val(id) == heap[id]

\* The contents seen through a view: base[:, :, idx].
FrameVal(v) == [q \in PlaneOf(N) |-> heap[v.base][<<q[1], q[2], v.idx>>]]

\* ------------------------------------------------------------------------
\* The reference recurrence of the zero-padding comparison: out-of-range
\* neighbours read 0 instead of wrapping.
\* ------------------------------------------------------------------------
At0(f, i, j, k, n) ==
  IF i < 0 \/ i > n - 1 \/ j < 0 \/ j > n - 1 \/ k < 0 \/ k > n - 1 THEN 0 ELSE f[<<i, j, k>>]
PadLaplacian(f, d, n) ==
  [pt \in DOMAIN f |->
     DivDx2(At0(f, pt[1] - 1, pt[2], pt[3], n) + At0(f, pt[1] + 1, pt[2], pt[3], n)
            + At0(f, pt[1], pt[2] - 1, pt[3], n) + At0(f, pt[1], pt[2] + 1, pt[3], n)
            + At0(f, pt[1], pt[2], pt[3] - 1, n) + At0(f, pt[1], pt[2], pt[3] + 1, n)
            - 6 * f[pt], d)]
PadStep(cu, pr, d, dtv, n) ==
  LET lp == PadLaplacian(cu, d, n)
      bh == PadLaplacian(lp, d, n)
      nx == Recurrence(cu, pr, lp, bh, dtv)
  IN [pt \in DOMAIN nx |->
        IF \E a \in 1..3 : pt[a] = 0 \/ pt[a] = n - 1 THEN 0 ELSE nx[pt]]

\* ------------------------------------------------------------------------
\* Init: lines 6-10, the parameters
\* ------------------------------------------------------------------------
Unbound ==
  /\ steps = 0 /\ dx = <<0, 1>> /\ x = << >>
  /\ heap = << >> /\ u = 0 /\ u_prev = 0 /\ u_next = 0
  /\ lap_u = << >> /\ biharm_u = << >>
  /\ frames = << >> /\ step = -1 /\ mid_idx = -1 /\ u_slice = NoView
  /\ err = NoErr
  /\ c = << >> /\ p = << >> /\ hist = << >> /\ pad_u = << >> /\ pad_prev = << >>

Init ==
  /\ L \in LSet /\ N \in NSet /\ T \in TSet /\ dt \in DtSet
  /\ InRange(N, L, IF dt = 0 THEN 0 ELSE IntTrunc(T, dt), dt)
  /\ pc = "l11"
  /\ Unbound

\* line 11: steps = int(T / dt)
ComputeSteps ==
  /\ pc = "l11"
  /\ IF ZeroDivision(dt)
       THEN /\ err' = [kind |-> "ZeroDivisionError", line |-> 11]
            /\ pc' = "error"
            /\ UNCHANGED steps
       ELSE /\ steps' = IntTrunc(T, dt)
            /\ pc' = "l14"
            /\ UNCHANGED err
  /\ UNCHANGED <<config, dx, x, arrays, lap_u, biharm_u, frames, step, mid_idx, u_slice, ghost>>

ComputeDxNoRaise ==
  /\ pc = "l14"
  /\ dx' = <<L, N - 1>>
  /\ pc' = "l15"
  /\ UNCHANGED <<config, steps, x, arrays, lap_u, biharm_u, frames, step, mid_idx, u_slice, err,
                 ghost>>

\* line 14: dx = L / (N - 1)
ComputeDx ==
  /\ pc = "l14"
  /\ IF ZeroDivision(N - 1)
       THEN /\ err' = [kind |-> "ZeroDivisionError", line |-> 14]
            /\ pc' = "error"
            /\ UNCHANGED dx
       ELSE /\ dx' = <<L, N - 1>>
            /\ pc' = "l15"
            /\ UNCHANGED err
  /\ UNCHANGED <<config, steps, x, arrays, lap_u, biharm_u, frames, step, mid_idx, u_slice, ghost>>

\* lines 15-18: x = y = z = linspace(0, L, N); x[i] = i * dx, kept as the
\* numerator i * L over N - 1.  The meshgrid X, Y, Z repeats these values.
BuildGrid ==
  /\ pc = "l15"
  /\ x' = [i \in 1..N |-> (i - 1) * L]
  /\ pc' = "l21"
  /\ UNCHANGED <<config, steps, dx, arrays, lap_u, biharm_u, frames, step, mid_idx, u_slice, err, ghost>>

\* lines 21-25: u = initial condition; u_prev = np.copy(u); u_next = np.copy(u)
InitField ==
  /\ pc = "l21"
  /\ \E f \in InitialFields(N) :
       LET h1 == <<f>>
           cp1 == NpCopy(h1, 1)
           cp2 == NpCopy(cp1.heap, 1)
       IN /\ heap' = cp2.heap
          /\ u' = 1
          /\ u_prev' = cp1.ref
          /\ u_next' = cp2.ref
          /\ hist' = <<f>>
          /\ pad_u' = f
          /\ pad_prev' = f
  /\ pc' = "l39"
  /\ UNCHANGED <<config, steps, dx, x, lap_u, biharm_u, frames, step, mid_idx, u_slice, err, c, p>>

\* line 39: frames = []
InitFrames ==
  /\ pc = "l39"
  /\ frames' = << >>
  /\ pc' = "l40"
  /\ UNCHANGED <<config, steps, dx, x, arrays, lap_u, biharm_u, step, mid_idx, u_slice, err, ghost>>

\* line 40: for step in range(steps)
For ==
  /\ pc = "l40"
  /\ IF RangeHasNext(step, steps)
       THEN /\ step' = step + 1
            /\ c' = Val(u)
            /\ p' = Val(u_prev)
            /\ pc' = "l41"
       ELSE /\ pc' = "halted"
            /\ UNCHANGED <<step, c, p>>
  /\ UNCHANGED <<config, steps, dx, x, arrays, lap_u, biharm_u, frames, mid_idx, u_slice, err,
                 hist, pad_u, pad_prev>>

\* line 41: lap_u = laplacian(u)
Lap ==
  /\ pc = "l41"
  /\ lap_u' = laplacian(Val(u), dx, N)
  /\ pc' = "l42"
  /\ UNCHANGED <<config, steps, dx, x, arrays, biharm_u, frames, step, mid_idx, u_slice, err, ghost>>

\* line 42: biharm_u = biharmonic(u)
Biharm ==
  /\ pc = "l42"
  /\ biharm_u' = biharmonic(Val(u), dx, N)
  /\ pc' = "l45"
  /\ UNCHANGED <<config, steps, dx, x, arrays, lap_u, frames, step, mid_idx, u_slice, err, ghost>>

\* lines 45-50: u_next = 2*u - u_prev + dt**2 * lap_u - dt**4 * biharm_u
\* The expression builds a new array and rebinds u_next to it.
Recur ==
  /\ pc = "l45"
  /\ heap' = Append(heap, Recurrence(Val(u), Val(u_prev), lap_u, biharm_u, dt))
  /\ u_next' = Len(heap) + 1
  /\ pc' = "l53"
  /\ UNCHANGED <<config, steps, dx, x, u, u_prev, lap_u, biharm_u, frames, step, mid_idx, u_slice,
                 err, ghost>>

\* line 53: u_next[0, :, :] = u_next[-1, :, :] = 0, written in place.
\* On an empty array (N = 0) index 0 is out of bounds: IndexError.
BoundaryX ==
  /\ pc = "l53"
  /\ IF N = 0
       THEN /\ err' = [kind |-> "IndexError", line |-> 53]
            /\ pc' = "error"
            /\ UNCHANGED heap
       ELSE /\ heap' = [heap EXCEPT ![u_next] = SetFaces(@, 0, N)]
            /\ pc' = "l54"
            /\ UNCHANGED err
  /\ UNCHANGED <<config, steps, dx, x, u, u_prev, u_next, lap_u, biharm_u, frames, step, mid_idx,
                 u_slice, ghost>>

\* line 54: u_next[:, 0, :] = u_next[:, -1, :] = 0
BoundaryY ==
  /\ pc = "l54"
  /\ heap' = [heap EXCEPT ![u_next] = SetFaces(@, 1, N)]
  /\ pc' = "l55"
  /\ UNCHANGED <<config, steps, dx, x, u, u_prev, u_next, lap_u, biharm_u, frames, step, mid_idx,
                 u_slice, err, ghost>>

\* line 55: u_next[:, :, 0] = u_next[:, :, -1] = 0
BoundaryZ ==
  /\ pc = "l55"
  /\ heap' = [heap EXCEPT ![u_next] = SetFaces(@, 2, N)]
  /\ pc' = "l58"
  /\ UNCHANGED <<config, steps, dx, x, u, u_prev, u_next, lap_u, biharm_u, frames, step, mid_idx,
                 u_slice, err, ghost>>

\* line 58: u_prev = np.copy(u)
UpdatePrev ==
  /\ pc = "l58"
  /\ LET cp == NpCopy(heap, u) IN
       /\ heap' = cp.heap
       /\ u_prev' = cp.ref
  /\ pc' = "l59"
  /\ UNCHANGED <<config, steps, dx, x, u, u_next, lap_u, biharm_u, frames, step, mid_idx, u_slice,
                 err, ghost>>

\* line 59: u = np.copy(u_next).  The step is committed here: the history
\* records the committed field and the zero-padded reference run advances.
UpdateU ==
  /\ pc = "l59"
  /\ LET cp == NpCopy(heap, u_next) IN
       /\ heap' = cp.heap
       /\ u' = cp.ref
  /\ hist' = Append(hist, Val(u_next))
  /\ pad_u' = PadStep(pad_u, pad_prev, dx, dt, N)
  /\ pad_prev' = pad_u
  /\ pc' = "l62"
  /\ UNCHANGED <<config, steps, dx, x, u_prev, u_next, lap_u, biharm_u, frames, step, mid_idx,
                 u_slice, err, c, p>>

\* line 62: mid_idx = N // 2
SetMidIdx ==
  /\ pc = "l62"
  /\ mid_idx' = MidIdx(N)
  /\ pc' = "l63"
  /\ UNCHANGED <<config, steps, dx, x, arrays, lap_u, biharm_u, frames, step, u_slice, err, ghost>>

\* line 63: u_slice = u[:, :, mid_idx]
Slice ==
  /\ pc = "l63"
  /\ u_slice' = SliceView(u, mid_idx)
  /\ pc' = "l64"
  /\ UNCHANGED <<config, steps, dx, x, arrays, lap_u, biharm_u, frames, step, mid_idx, err, ghost>>

\* line 64: frames.append(u_slice)
AppendFrame ==
  /\ pc = "l64"
  /\ frames' = Append(frames, u_slice)
  /\ pc' = "l40"
  /\ UNCHANGED <<config, steps, dx, x, arrays, lap_u, biharm_u, step, mid_idx, u_slice, err, ghost>>

Setup == ComputeSteps \/ ComputeDx \/ BuildGrid \/ InitField \/ InitFrames

Loop ==
  \/ For \/ Lap \/ Biharm \/ Recur
  \/ BoundaryX \/ BoundaryY \/ BoundaryZ
  \/ UpdatePrev \/ UpdateU
  \/ SetMidIdx \/ Slice \/ AppendFrame

Next == Setup \/ Loop

Spec == Init /\ [][Next]_vars

\* The script is one sequential thread: it keeps executing until it raises
\* or the loop ends.
FairSpec == Spec /\ WF_vars(Next)

\* ------------------------------------------------------------------------
\* The loop body as an operation of its own: the integrator entered at the
\* loop head with u_prev a copy of u, for any step size, dt = 0 included
\* (the script itself cannot get there with dt = 0: line 11 raises).
\* ------------------------------------------------------------------------
InitStep ==
  /\ L \in LSet /\ N \in 2..MaxN /\ dt \in DtSet /\ steps \in 0..MaxT
  /\ T = steps * dt
  /\ InRange(N, L, steps, dt)
  /\ dx = <<L, N - 1>>
  /\ x = [i \in 1..N |-> (i - 1) * L]
  /\ \E f \in InitialFields(N) :
       /\ heap = NpCopy(NpCopy(<<f>>, 1).heap, 1).heap
       /\ hist = <<f>> /\ pad_u = f /\ pad_prev = f
  /\ u = 1 /\ u_prev = 2 /\ u_next = 3
  /\ lap_u = << >> /\ biharm_u = << >>
  /\ frames = << >> /\ step = -1 /\ mid_idx = -1 /\ u_slice = NoView
  /\ err = NoErr /\ c = << >> /\ p = << >>
  /\ pc = "l40"

SpecStep == InitStep /\ [][Loop]_vars

\* ------------------------------------------------------------------------
\* Vocabulary of the properties
\* ------------------------------------------------------------------------
OnFace(pt) == \E a \in 1..3 : pt[a] = 0 \/ pt[a] = N - 1
ZeroOnFaces(f) == \A pt \in DOMAIN f : OnFace(pt) => f[pt] = 0
Interior == {pt \in GridOf(N) : ~OnFace(pt)}
\* The number of steps committed so far (executions of line 59).
Committed == Len(hist) - 1
\* Between the commit of line 59 and the next iteration's entry.
AfterStep == pc \in {"l62", "l63", "l64"} \/ (pc \in {"l40", "halted"} /\ step >= 0)

\* C1: after every step k >= 1 the committed field u is 0 at every grid point
\* whose index is 0 or N-1 along any axis (N >= 3, any initial field).
C1_ZeroBoundary ==
  (N >= 3 /\ Committed >= 1) =>
     \A pt \in GridOf(N) :
        (pt[1] \in {0, N - 1} \/ pt[2] \in {0, N - 1} \/ pt[3] \in {0, N - 1}) => Val(u)[pt] = 0
C1_Witness ==
  /\ N >= 3 /\ Committed >= 2
  /\ \E pt \in GridOf(N) : OnFace(pt) /\ hist[1][pt] # 0
  /\ \E pt \in GridOf(N) : Val(u)[pt] # 0

\* C2: after a step, u_prev equals the pre-step u (c) everywhere, and u is
\* 2c - p + dt^2 laplacian(c) - dt^4 biharmonic(c) off the faces and 0 on
\* them, both stencils taken on the pre-step c.
C2_StepPost ==
  AfterStep =>
     LET lc == laplacian(c, dx, N)
         bc == biharmonic(c, dx, N)
     IN /\ Val(u_prev) = c
        /\ \A pt \in GridOf(N) :
             Val(u)[pt] = IF OnFace(pt) THEN 0
                          ELSE 2 * c[pt] - p[pt] + dt * dt * lc[pt] - dt * dt * dt * dt * bc[pt]
C2_Witness ==
  /\ pc = "l62" /\ step >= 1 /\ c # p
  /\ \E pt \in Interior : biharmonic(c, dx, N)[pt] # 0 /\ p[pt] # 0 /\ Val(u)[pt] # 0

\* A neighbour index of the stencil: -1 reads N-1, N reads 0.
WrapIdx(i) == IF i = -1 THEN N - 1 ELSE IF i = N THEN 0 ELSE i
\* lap_u holds laplacian(u) of this iteration and u has not been rebound yet.
LapFresh == pc \in {"l42", "l45", "l53", "l54", "l55", "l58", "l59"}

\* C3: laplacian(f)[i,j,k] = (the six axis neighbours, indices wrapped modulo
\* N, minus 6 f[i,j,k]) / dx^2 at every index; the result has the shape of
\* f and f is not modified.  (lap * dx^2 = sum, with dx^2 = L^2/(N-1)^2.)
C3_LaplacianStencil ==
  LapFresh =>
     /\ DOMAIN lap_u = GridOf(N)
     /\ DOMAIN Val(u) = GridOf(N)
     /\ Val(u) = c
     /\ \A i \in 0..(N-1), j \in 0..(N-1), k \in 0..(N-1) :
          lap_u[<<i, j, k>>] * L * L =
             ( c[<<WrapIdx(i - 1), j, k>>] + c[<<WrapIdx(i + 1), j, k>>]
             + c[<<i, WrapIdx(j - 1), k>>] + c[<<i, WrapIdx(j + 1), k>>]
             + c[<<i, j, WrapIdx(k - 1)>>] + c[<<i, j, WrapIdx(k + 1)>>]
             - 6 * c[<<i, j, k>>] ) * (N - 1) * (N - 1)
C3_Witness ==
  /\ pc = "l42" /\ N >= 3
  /\ \E j \in 0..(N-1), k \in 0..(N-1) :
        /\ c[<<N - 1, j, k>>] # 0
        /\ c[<<N - 1, j, k>>] # c[<<0, j, k>>]
        /\ lap_u[<<0, j, k>>] # 0

\* Inputs of the linearity property: scalars, and fields small enough for the
\* combined field's biharmonic to stay in range.
LinScalars == {-1, 2}
LinCap == 10^4
LinSmall(f) == \A pt \in DOMAIN f : Abs(f[pt]) <= LinCap
Lin(a, f, b, g) == [pt \in DOMAIN f |-> a * f[pt] + b * g[pt]]

\* C7: laplacian and biharmonic are linear: op(a f + b g) = a op(f) + b op(g)
\* at every grid point, for the fields f = u and g = u_prev the loop applies
\* the operators to and all scalars a, b.
C7_Linear ==
  (pc = "l41" /\ LinSmall(Val(u)) /\ LinSmall(Val(u_prev))) =>
     LET f == Val(u)
         g == Val(u_prev)
         lf == laplacian(f, dx, N) @@ << >>
         lg == laplacian(g, dx, N) @@ << >>
         bf == biharmonic(f, dx, N) @@ << >>
         bg == biharmonic(g, dx, N) @@ << >>
     IN \A a \in LinScalars, b \in LinScalars :
          LET m == Lin(a, f, b, g) @@ << >>
              lm == laplacian(m, dx, N)
              bm == biharmonic(m, dx, N)
          IN /\ \A pt \in GridOf(N) : lm[pt] = a * lf[pt] + b * lg[pt]
             /\ \A pt \in GridOf(N) : bm[pt] = a * bf[pt] + b * bg[pt]
C7_Witness ==
  /\ pc = "l41" /\ N >= 3 /\ step >= 1
  /\ LinSmall(Val(u)) /\ LinSmall(Val(u_prev))
  /\ Val(u) # Val(u_prev)
  /\ \E pt \in GridOf(N) : OnFace(pt) /\ laplacian(Val(u), dx, N)[pt] # 0
                                       /\ biharmonic(Val(u_prev), dx, N)[pt] # 0

\* C9: frame i (counted from 0) is the cross-section at index N div 2 along
\* the third axis of u as it is after exactly i+1 steps, in step order.
C9_PostStepFrames ==
  \A i \in 1..Len(frames) :
     /\ Committed >= i
     /\ FrameVal(frames[i]) = [q \in PlaneOf(N) |-> hist[i + 1][<<q[1], q[2], N \div 2>>]]
C9_Witness ==
  /\ Len(frames) >= 2 /\ N >= 3
  /\ FrameVal(frames[1]) # FrameVal(frames[2])
  /\ FrameVal(frames[1]) # [q \in PlaneOf(N) |-> hist[1][<<q[1], q[2], N \div 2>>]]
  /\ \E q \in PlaneOf(N) : FrameVal(frames[2])[q] # 0

\* C10: if the initial field is 0 on all six faces, the committed u equals,
\* at every grid point and after every step, the field of the same recurrence
\* run with out-of-range neighbours reading 0 instead of wrapping.
C10_WrapInvisible ==
  (Len(hist) >= 1 /\ ZeroOnFaces(hist[1])) => Val(u) = pad_u
C10_Witness ==
  /\ pc = "l53" /\ N >= 3 /\ Committed >= 1
  /\ ZeroOnFaces(hist[1])
  /\ \E pt \in GridOf(N) :
        Val(u_next)[pt] # Recurrence(pad_u, pad_prev, PadLaplacian(pad_u, dx, N),
                             PadLaplacian(PadLaplacian(pad_u, dx, N), dx, N), dt)[pt]
  /\ \E pt \in Interior : Val(u)[pt] # 0

\* C8 as stated: no element of frames ever shares storage with the array
\* that u, u_prev or u_next refers to.
C8_FramesIndependent ==
  \A i \in 1..Len(frames) : frames[i].base \notin {u, u_prev, u_next}

\* C8 as amended: a frame is a view of the array u referred to when it was
\* captured.  Only the newest frame can share storage with u (until line 59
\* rebinds u to a fresh copy), no frame shares storage with u_prev or u_next,
\* and no step changes what an appended frame shows.
C8_FramesStable ==
  /\ [](\A i \in 1..Len(frames) :
          /\ frames[i].base \notin {u_prev, u_next}
          /\ frames[i].base = u => i = Len(frames))
  /\ [][\A i \in 1..Len(frames) :
          /\ frames'[i] = frames[i]
          /\ heap'[frames[i].base] = heap[frames[i].base]]_vars
C8_Witness ==
  /\ Len(frames) >= 2 /\ N >= 3 /\ pc = "l59"
  /\ frames[Len(frames)].base = u
  /\ frames[1].base # u
  /\ Val(frames[1].base) # Val(u)
  /\ Val(u_next) # Val(u)

\* C4: the run reaches Halted after exactly `steps` iterations; frames grows
\* by one element per iteration, so its length is `steps` when the loop ends
\* (0 when steps = 0), and nothing is stepped or appended after that.
C4_RunHalts ==
  /\ [](pc = "l40" => (Len(frames) = step + 1 /\ Committed = step + 1))
  /\ []((pc = "halted" /\ steps >= 0) =>
          (step + 1 = steps /\ Len(frames) = steps /\ Committed = steps))
  /\ [][pc = "halted" => (frames' = frames /\ hist' = hist)]_vars
  /\ ((pc = "l40" /\ N >= 2) ~> (pc = "halted"))
C4_Witness ==
  /\ pc = "halted" /\ steps >= 3 /\ Len(frames) = steps /\ N >= 3

\* The configurations the taxonomy calls invalid.
Invalid == N < 2 \/ dt <= 0 \/ L <= 0 \/ (dt # 0 /\ IntTrunc(T, dt) <= 0)

====
